---- MODULE Spec2Model ----
(***************************************************************************)
(* Model of nodejs/src/services/solutionInstall.js: the solution installer *)
(* that clones a repository, cleans up earlier containers and deploys the  *)
(* checkout with docker or docker-compose, reconciling env files on the    *)
(* way.                                                                    *)
(*                                                                         *)
(* One action per external command (each `await runCommand(...)`) and one  *)
(* per synchronous file-system step (mergeEnvironmentFiles,                *)
(* detectRepoStructure).  An external command takes effect and reports its *)
(* exit status in one step; any command may also fail without effect (a    *)
(* spawn failure, the 'error' event of runCommand).  The file system holds *)
(* the root env file and the files of the one checkout directory all       *)
(* solution types of the modelled registry share.                          *)
(***************************************************************************)
EXTENDS Naturals, Sequences, FiniteSets

VARIABLES
    fs,           \* path -> file ([exists, lines])
    repoDir,      \* the checkout directory /workspace/<repoName> exists
    container,    \* a container named config.containerName exists
    envWriter,    \* history: the request whose command last wrote or removed <repoPath>/.env
    pc,           \* request -> the step it is waiting at
    solutionType, \* request -> req.body.solutionType
    config,       \* request -> SOLUTION_CONFIGS[solutionType]
    structure,    \* request -> the value detectRepoStructure returned
    mergedVars,   \* request -> the value the last mergeEnvironmentFiles returned
    portIdx,      \* request -> position of the for loop over config.additionalPorts
    cmds,         \* request -> the commands runCommand ran in this run, with their outcome
    error,        \* request -> the error installWithProgress re-raised
    result        \* request -> the value installWithProgress returned

vars == <<fs, repoDir, container, envWriter, pc, solutionType, config,
          structure, mergedVars, portIdx, cmds, error, result>>

----------------------------------------------------------------------------
(* Bounds *)

\* longest env file, in lines, the merge is checked on
MaxLines == 3
\* number of entries in config.additionalPorts of the solutions that have any
MaxPorts == 2

Requests == {"r1", "r2"}
Other(p) == CHOOSE q \in Requests : q # p
NoRequest == "none"

----------------------------------------------------------------------------
(* Files *)

RootEnvPath  == "/workspace/.env"
LocalEnvPath == ".env"
TempEnvPath  == ".env.temp"
ExamplePath  == ".env.example"
\* what `${config.envFile}` renders when config.envFile is undefined
UndefinedPath == "undefined"
Dockerfile   == "Dockerfile"

composeFiles == <<"docker-compose.yml", "docker-compose.yaml", "compose.yml", "compose.yaml">>
ComposeNames == {composeFiles[i] : i \in DOMAIN composeFiles}

RepoPaths == {LocalEnvPath, TempEnvPath, ExamplePath, UndefinedPath, Dockerfile} \cup ComposeNames
Paths     == {RootEnvPath} \cup RepoPaths

Pair(k, v) == [kind |-> "pair", k |-> k, v |-> v]
Comment    == [kind |-> "comment", k |-> "", v |-> ""]

NoFile        == [exists |-> FALSE, lines |-> <<>>]
FileOf(lines) == [exists |-> TRUE, lines |-> lines]
Marker        == FileOf(<<>>)

\* rm -rf <repoPath>: nothing of the checkout is left
ClearRepo(fsys) == [x \in Paths |-> IF x \in RepoPaths THEN NoFile ELSE fsys[x]]

\* cp <src> <dst>
CanCopy(fsys, dirOk, src) == dirOk /\ fsys[src].exists
Copy(fsys, src, dst)      == [fsys EXCEPT ![dst] = fsys[src]]

----------------------------------------------------------------------------
(* mergeEnvironmentFiles *)

HasKey(envVars, k) == \E i \in DOMAIN envVars : envVars[i].k = k
ValueOf(envVars, k) == envVars[CHOOSE i \in DOMAIN envVars : envVars[i].k = k].v
KeysOf(envVars) == {envVars[i].k : i \in DOMAIN envVars}

\* obj[k] = v on a JS object: a known key keeps its place, a new one goes last
SetVar(envVars, k, v) ==
    IF HasKey(envVars, k)
    THEN [i \in DOMAIN envVars |-> IF envVars[i].k = k THEN [k |-> k, v |-> v] ELSE envVars[i]]
    ELSE Append(envVars, [k |-> k, v |-> v])

\* content.split('\n').forEach(...): only KEY=VALUE lines are kept
RECURSIVE ParseLines(_, _)
ParseLines(lines, acc) ==
    IF lines = <<>> THEN acc
    ELSE LET l == Head(lines)
         IN ParseLines(Tail(lines),
                       IF l.kind = "pair" THEN SetVar(acc, l.k, l.v) ELSE acc)

ReadEnvFile(fsys, path) ==
    IF fsys[path].exists THEN ParseLines(fsys[path].lines, <<>>) ELSE <<>>

RECURSIVE AddLocalOnly(_, _, _)
AddLocalOnly(localVars, rootVars, acc) ==
    IF localVars = <<>> THEN acc
    ELSE LET e == Head(localVars)
         IN AddLocalOnly(Tail(localVars), rootVars,
                         IF ~HasKey(rootVars, e.k) THEN SetVar(acc, e.k, e.v) ELSE acc)

\* the docstring's policy: local wins unless its value is empty
RECURSIVE AddLocalFirst(_, _, _)
AddLocalFirst(localVars, rootVars, acc) ==
    IF localVars = <<>> THEN acc
    ELSE LET e == Head(localVars)
         IN AddLocalFirst(Tail(localVars), rootVars,
                          IF ~HasKey(rootVars, e.k) \/ e.v # ""
                          THEN SetVar(acc, e.k, e.v) ELSE acc)

MergeVars_LocalFirst(rootVars, localVars) == AddLocalFirst(localVars, rootVars, rootVars)

MergeVars(rootVars, localVars) == AddLocalOnly(localVars, rootVars, rootVars)

EnvContent(envVars) == [i \in DOMAIN envVars |-> Pair(envVars[i].k, envVars[i].v)]

\* the merge writing over the local env file instead of the output path
mergeEnvironmentFiles_InPlace(fsys, dirOk, rootEnvPath, localEnvPath, outputPath) ==
    LET m == MergeVars(ReadEnvFile(fsys, rootEnvPath), ReadEnvFile(fsys, localEnvPath))
    IN  IF dirOk
        THEN [ok |-> TRUE, fs |-> [fsys EXCEPT ![localEnvPath] = FileOf(EnvContent(m))], merged |-> m]
        ELSE [ok |-> FALSE, fs |-> fsys, merged |-> <<>>]

\* ok = FALSE: writeFileSync threw (the directory of outputPath is gone) and
\* the catch block re-raised
mergeEnvironmentFiles(fsys, dirOk, rootEnvPath, localEnvPath, outputPath) ==
    LET m == MergeVars(ReadEnvFile(fsys, rootEnvPath), ReadEnvFile(fsys, localEnvPath))
    IN  IF dirOk
        THEN [ok |-> TRUE, fs |-> [fsys EXCEPT ![outputPath] = FileOf(EnvContent(m))], merged |-> m]
        ELSE [ok |-> FALSE, fs |-> fsys, merged |-> <<>>]

----------------------------------------------------------------------------
(* detectRepoStructure *)

NoStructure == [hasDockerCompose |-> FALSE, hasDockerfile |-> FALSE, composeFile |-> "null"]

ExistsSync(fsys, dirOk, path) == dirOk /\ fsys[path].exists

\* the for loop with its break: the first present name wins
RECURSIVE FirstCompose(_, _, _)
FirstCompose(fsys, dirOk, i) ==
    IF i > Len(composeFiles) THEN "null"
    ELSE IF ExistsSync(fsys, dirOk, composeFiles[i]) THEN composeFiles[i]
    ELSE FirstCompose(fsys, dirOk, i + 1)

\* the loop without its break: the last present name wins
RECURSIVE LastCompose(_, _, _)
LastCompose(fsys, dirOk, i) ==
    IF i = 0 THEN "null"
    ELSE IF ExistsSync(fsys, dirOk, composeFiles[i]) THEN composeFiles[i]
    ELSE LastCompose(fsys, dirOk, i - 1)

detectRepoStructure_NoBreak(fsys, dirOk) ==
    LET f == LastCompose(fsys, dirOk, Len(composeFiles))
    IN  [hasDockerCompose |-> f # "null",
         hasDockerfile    |-> ExistsSync(fsys, dirOk, Dockerfile),
         composeFile      |-> f]

detectRepoStructure(fsys, dirOk) ==
    LET f == FirstCompose(fsys, dirOk, 1)
    IN  [hasDockerCompose |-> f # "null",
         hasDockerfile    |-> ExistsSync(fsys, dirOk, Dockerfile),
         composeFile      |-> f]

----------------------------------------------------------------------------
(* SOLUTION_CONFIGS and the requests *)

Undefined == "<undefined>"

SolutionConfig(installType, envFile, nPorts) ==
    [installType     |-> installType,
     envFile         |-> envFile,
     additionalPorts |-> [i \in 1..nPorts |-> 8080 + i],
     port            |-> 3000]

NoConfig == SolutionConfig("", Undefined, 0)

\* the registry required from ../config/solutionconfig; every entry has the
\* same repoName and containerName, so all share one checkout and container
SOLUTION_CONFIGS ==
    [single      |-> SolutionConfig("docker", ExamplePath, 0),
     singleNoEnv |-> SolutionConfig("docker", Undefined, MaxPorts),
     multi       |-> SolutionConfig("docker-compose", ExamplePath, MaxPorts),
     multiNoEnv  |-> SolutionConfig("docker-compose", Undefined, 0),
     legacy      |-> SolutionConfig("script", ExamplePath, 0)]

SolutionTypes == DOMAIN SOLUTION_CONFIGS
\* req.body.solutionType: a registered type, none at all, or an unregistered one
MissingType  == ""
RequestTypes == SolutionTypes \cup {MissingType, "unknown"}

\* `${repoPath}/${config.envFile}`
EnvFileArg(cfg) == IF cfg.envFile = Undefined THEN UndefinedPath ELSE cfg.envFile

----------------------------------------------------------------------------
(* What a clone can bring, and the root env file *)

RootLines      == <<Pair("A", "1"), Pair("B", "2")>>
ExampleLines   == <<Pair("B", ""), Pair("C", "3")>>
CommittedLines == <<Pair("C", "9")>>
UndefinedLines == <<Pair("U", "1")>>

RootFiles == {NoFile, FileOf(RootLines)}

DescriptorSets ==
    {{}, {Dockerfile}, {"docker-compose.yml"}, {"docker-compose.yml", Dockerfile},
     {"compose.yml", "compose.yaml"}}

Checkout(descriptors, hasExample, hasEnv, hasUndefined) ==
    [x \in RepoPaths |->
        IF x \in descriptors THEN Marker
        ELSE IF x = ExamplePath /\ hasExample THEN FileOf(ExampleLines)
        ELSE IF x = LocalEnvPath /\ hasEnv THEN FileOf(CommittedLines)
        ELSE IF x = UndefinedPath /\ hasUndefined THEN FileOf(UndefinedLines)
        ELSE NoFile]

Checkouts ==
    {Checkout(d, e, l, u) : d \in DescriptorSets, e \in BOOLEAN, l \in BOOLEAN, u \in BOOLEAN}

----------------------------------------------------------------------------
(* Initial state *)

NoError  == [msg |-> "", cmd |-> ""]
NoResult == [success |-> FALSE, port |-> 0, solutionType |-> ""]

IdleLocals ==
    /\ pc = [p \in Requests |-> "idle"]
    /\ solutionType = [p \in Requests |-> ""]
    /\ config = [p \in Requests |-> NoConfig]
    /\ structure = [p \in Requests |-> NoStructure]
    /\ mergedVars = [p \in Requests |-> <<>>]
    /\ portIdx = [p \in Requests |-> 0]
    /\ cmds = [p \in Requests |-> <<>>]
    /\ error = [p \in Requests |-> NoError]
    /\ result = [p \in Requests |-> NoResult]

Init ==
    /\ \E r \in RootFiles : fs = [x \in Paths |-> IF x = RootEnvPath THEN r ELSE NoFile]
    /\ repoDir = FALSE
    /\ container \in BOOLEAN
    /\ envWriter = NoRequest
    /\ IdleLocals

----------------------------------------------------------------------------
(* Control flow shared by the steps *)

Goto(p, l) ==
    /\ pc' = [pc EXCEPT ![p] = l]
    /\ UNCHANGED <<error, result>>

\* an exception reaching the catch block of installWithProgress, which re-raises
Throw(p, msg, cmd) ==
    /\ pc' = [pc EXCEPT ![p] = "raised"]
    /\ error' = [error EXCEPT ![p] = [msg |-> msg, cmd |-> cmd]]
    /\ UNCHANGED result

\* return { success: true, port: config.port, solutionType }
ReturnSuccess(p) ==
    /\ pc' = [pc EXCEPT ![p] = "done"]
    /\ result' = [result EXCEPT ![p] =
                    [success |-> TRUE, port |-> config[p].port, solutionType |-> solutionType[p]]]
    /\ UNCHANGED error

\* runCommand(command): the command ran and closed with exit code 0 (ok) or not
runCommand(p, cmd, ok) ==
    cmds' = [cmds EXCEPT ![p] = Append(@, [cmd |-> cmd, ok |-> ok])]

\* the file system after a command of request p
WriteFs(p, fsys) ==
    /\ fs' = fsys
    /\ envWriter' = IF fsys[LocalEnvPath] # fs[LocalEnvPath] THEN p ELSE envWriter

KeepFs == UNCHANGED <<fs, envWriter>>

\* installDockerService up to its first await
DockerServiceEntry(cfg) == IF cfg.envFile # Undefined THEN "ds_reset" ELSE "ds_merge"

\* Step 4 of installWithProgress, reached when cleanupExistingContainers returns
InstallByType(p) ==
    IF config[p].installType = "docker"
    THEN Goto(p, DockerServiceEntry(config[p]))
    ELSE IF config[p].installType = "docker-compose"
    THEN Goto(p, "dc_reset")
    ELSE Throw(p, "Unsupported installation type", "")

\* await runCommand(`cp <src> <dst>`) outside any try block
CopyCommand(p, cmd, src, dst, next) ==
    \E ok \in BOOLEAN :
        /\ ok => CanCopy(fs, repoDir, src)
        /\ runCommand(p, cmd, ok)
        /\ IF ok
           THEN WriteFs(p, Copy(fs, src, dst)) /\ Goto(p, next)
           ELSE KeepFs /\ Throw(p, "Command failed", cmd)
        /\ UNCHANGED <<repoDir, container, solutionType, config, structure, mergedVars, portIdx>>

\* await runCommand(`find <repoPath> -name ".env.example" -exec sh -c 'cp ...' _ {} \;`):
\* every .env.example is copied over the .env beside it, of which the one at
\* the top of the checkout is modelled; with no match find still exits 0
FindCommand(p, cmd, next) ==
    \E ok \in BOOLEAN :
        /\ ok => repoDir
        /\ runCommand(p, cmd, ok)
        /\ IF ok
           THEN /\ WriteFs(p, IF fs[ExamplePath].exists
                              THEN Copy(fs, ExamplePath, LocalEnvPath) ELSE fs)
                /\ Goto(p, next)
           ELSE KeepFs /\ Throw(p, "Command failed", cmd)
        /\ UNCHANGED <<repoDir, container, solutionType, config, structure, mergedVars, portIdx>>

\* await runCommand(`rm -f <tempEnvPath>`), the last step of both drivers
RemoveTempCommand(p, cmd) ==
    \E ok \in BOOLEAN :
        /\ runCommand(p, cmd, ok)
        /\ IF ok
           THEN WriteFs(p, [fs EXCEPT ![TempEnvPath] = NoFile]) /\ ReturnSuccess(p)
           ELSE KeepFs /\ Throw(p, "Command failed", cmd)
        /\ UNCHANGED <<repoDir, container, solutionType, config, structure, mergedVars, portIdx>>

----------------------------------------------------------------------------
(* installWithProgress *)

FreshLocals(p, t, cfg) ==
    /\ solutionType' = [solutionType EXCEPT ![p] = t]
    /\ config' = [config EXCEPT ![p] = cfg]
    /\ structure' = [structure EXCEPT ![p] = NoStructure]
    /\ mergedVars' = [mergedVars EXCEPT ![p] = <<>>]
    /\ portIdx' = [portIdx EXCEPT ![p] = 0]
    /\ result' = [result EXCEPT ![p] = NoResult]

\* the request validated only after the earlier checkout has been removed
Start_ValidateLate(p, t) ==
    /\ pc[p] \in {"idle", "done", "raised"}
    /\ IF t = MissingType \/ t \notin SolutionTypes
       THEN /\ FreshLocals(p, t, NoConfig)
            /\ cmds' = [cmds EXCEPT ![p] = <<[cmd |-> "rm_repo", ok |-> TRUE]>>]
            /\ WriteFs(p, ClearRepo(fs))
            /\ repoDir' = FALSE
            /\ pc' = [pc EXCEPT ![p] = "raised"]
            /\ error' = [error EXCEPT ![p] =
                            [msg |-> IF t = MissingType THEN "Solution type is required"
                                     ELSE "Unknown solution type", cmd |-> ""]]
       ELSE /\ FreshLocals(p, t, SOLUTION_CONFIGS[t])
            /\ cmds' = [cmds EXCEPT ![p] = <<>>]
            /\ pc' = [pc EXCEPT ![p] = "rm_repo"]
            /\ error' = [error EXCEPT ![p] = NoError]
            /\ UNCHANGED <<fs, envWriter, repoDir>>
    /\ UNCHANGED container

\* a request arrives: lines 295-308, up to the first await
Start(p, t) ==
    /\ pc[p] \in {"idle", "done", "raised"}
    /\ cmds' = [cmds EXCEPT ![p] = <<>>]
    /\ IF t = MissingType
       THEN /\ FreshLocals(p, t, NoConfig)
            /\ pc' = [pc EXCEPT ![p] = "raised"]
            /\ error' = [error EXCEPT ![p] = [msg |-> "Solution type is required", cmd |-> ""]]
       ELSE IF t \notin SolutionTypes
       THEN /\ FreshLocals(p, t, NoConfig)
            /\ pc' = [pc EXCEPT ![p] = "raised"]
            /\ error' = [error EXCEPT ![p] = [msg |-> "Unknown solution type", cmd |-> ""]]
       ELSE /\ FreshLocals(p, t, SOLUTION_CONFIGS[t])
            /\ pc' = [pc EXCEPT ![p] = "rm_repo"]
            /\ error' = [error EXCEPT ![p] = NoError]
    /\ UNCHANGED <<fs, envWriter, repoDir, container>>

\* Step 1: await runCommand(`rm -rf ${repoPath}`)
RmRepo(p) ==
    /\ pc[p] = "rm_repo"
    /\ \E ok \in BOOLEAN :
        /\ runCommand(p, "rm_repo", ok)
        /\ IF ok
           THEN WriteFs(p, ClearRepo(fs)) /\ repoDir' = FALSE /\ Goto(p, "git_clone")
           ELSE KeepFs /\ UNCHANGED repoDir /\ Throw(p, "Command failed", "rm_repo")
    /\ UNCHANGED <<container, solutionType, config, structure, mergedVars, portIdx>>

\* Step 2: await runCommand(`git clone -b ... ${repoPath}`); git refuses a
\* destination that exists and is not empty
GitClone(p) ==
    /\ pc[p] = "git_clone"
    /\ \E ok \in BOOLEAN, c \in Checkouts :
        /\ ok => ~repoDir
        /\ runCommand(p, "git_clone", ok)
        /\ IF ok
           THEN /\ WriteFs(p, [x \in Paths |-> IF x \in RepoPaths THEN c[x] ELSE fs[x]])
                /\ repoDir' = TRUE
                /\ Goto(p, "docker_rm")
           ELSE KeepFs /\ UNCHANGED repoDir /\ Throw(p, "Command failed", "git_clone")
    /\ UNCHANGED <<container, solutionType, config, structure, mergedVars, portIdx>>

----------------------------------------------------------------------------
(* cleanupExistingContainers *)

\* the removal without the try/catch around it
CleanupRm_NoCatch(p) ==
    /\ pc[p] = "docker_rm"
    /\ \E ok \in BOOLEAN :
        /\ runCommand(p, "docker_rm", ok)
        /\ IF ok
           THEN /\ container' = FALSE
                /\ IF config[p].additionalPorts # <<>>
                   THEN Goto(p, "docker_stop") /\ portIdx' = [portIdx EXCEPT ![p] = 1]
                   ELSE InstallByType(p) /\ UNCHANGED portIdx
           ELSE /\ Throw(p, "Command failed", "docker_rm")
                /\ UNCHANGED <<container, portIdx>>
    /\ KeepFs
    /\ UNCHANGED <<repoDir, solutionType, config, structure, mergedVars>>

\* await runCommand(`docker rm -f ${config.containerName} || true`); a rejection
\* lands in the catch block, which logs it and returns
CleanupRm(p) ==
    /\ pc[p] = "docker_rm"
    /\ \E ok \in BOOLEAN :
        /\ runCommand(p, "docker_rm", ok)
        /\ IF ok
           THEN /\ container' = FALSE
                /\ IF config[p].additionalPorts # <<>>
                   THEN Goto(p, "docker_stop") /\ portIdx' = [portIdx EXCEPT ![p] = 1]
                   ELSE InstallByType(p) /\ UNCHANGED portIdx
           ELSE /\ InstallByType(p)
                /\ UNCHANGED <<container, portIdx>>
    /\ KeepFs
    /\ UNCHANGED <<repoDir, solutionType, config, structure, mergedVars>>

\* for (const port of config.additionalPorts)
\*     await runCommand(`docker ps -q --filter "publish=${port}" | xargs -r docker stop || true`)
CleanupPort(p) ==
    /\ pc[p] = "docker_stop"
    /\ \E ok \in BOOLEAN :
        /\ runCommand(p, "docker_stop", ok)
        /\ IF ok /\ portIdx[p] < Len(config[p].additionalPorts)
           THEN Goto(p, "docker_stop") /\ portIdx' = [portIdx EXCEPT ![p] = @ + 1]
           ELSE InstallByType(p) /\ UNCHANGED portIdx
    /\ KeepFs
    /\ UNCHANGED <<repoDir, container, solutionType, config, structure, mergedVars>>

----------------------------------------------------------------------------
(* installDockerService *)

\* if (config.envFile) await runCommand(`cp ${repoPath}/${config.envFile} ${repoPath}/.env`)
DsReset(p) ==
    /\ pc[p] = "ds_reset"
    /\ CopyCommand(p, "ds_reset", EnvFileArg(config[p]), LocalEnvPath, "ds_merge")

\* await mergeEnvironmentFiles(rootEnvPath, localEnvPath, tempEnvPath)
DsMerge(p) ==
    /\ pc[p] = "ds_merge"
    /\ LET r == mergeEnvironmentFiles(fs, repoDir, RootEnvPath, LocalEnvPath, TempEnvPath)
       IN  /\ WriteFs(p, r.fs)
           /\ mergedVars' = [mergedVars EXCEPT ![p] = r.merged]
           /\ IF r.ok THEN Goto(p, "ds_use") ELSE Throw(p, "ENOENT", "")
    /\ UNCHANGED <<repoDir, container, solutionType, config, structure, portIdx, cmds>>

\* await runCommand(`cp ${tempEnvPath} ${localEnvPath}`)
DsUse(p) ==
    /\ pc[p] = "ds_use"
    /\ CopyCommand(p, "ds_use", TempEnvPath, LocalEnvPath, "ds_build")

\* a failed build logged and ignored
DsBuild_Swallow(p) ==
    /\ pc[p] = "ds_build"
    /\ \E ok \in BOOLEAN :
        /\ ok => repoDir /\ fs[Dockerfile].exists
        /\ runCommand(p, "ds_build", ok)
        /\ Goto(p, "ds_run")
    /\ KeepFs
    /\ UNCHANGED <<repoDir, container, solutionType, config, structure, mergedVars, portIdx>>

\* await runCommand(`docker build -t ${config.imageName} ${repoPath}`)
DsBuild(p) ==
    /\ pc[p] = "ds_build"
    /\ \E ok \in BOOLEAN :
        /\ ok => repoDir /\ fs[Dockerfile].exists
        /\ runCommand(p, "ds_build", ok)
        /\ IF ok THEN Goto(p, "ds_run") ELSE Throw(p, "Command failed", "ds_build")
    /\ KeepFs
    /\ UNCHANGED <<repoDir, container, solutionType, config, structure, mergedVars, portIdx>>

\* await runCommand(`docker run -d --name ${config.containerName} ...`); docker
\* refuses a name in use
DsRun(p) ==
    /\ pc[p] = "ds_run"
    /\ \E ok \in BOOLEAN :
        /\ ok => ~container
        /\ runCommand(p, "ds_run", ok)
        /\ IF ok
           THEN container' = TRUE /\ Goto(p, "ds_restore")
           ELSE UNCHANGED container /\ Throw(p, "Command failed", "ds_run")
    /\ KeepFs
    /\ UNCHANGED <<repoDir, solutionType, config, structure, mergedVars, portIdx>>

\* the restore left out
DsRestore_Skip(p) ==
    /\ pc[p] = "ds_restore"
    /\ Goto(p, "ds_rm_temp")
    /\ KeepFs
    /\ UNCHANGED <<repoDir, container, solutionType, config, structure, mergedVars, portIdx, cmds>>

\* the restore guarded by config.envFile as the reset is
DsRestore_Guarded(p) ==
    /\ pc[p] = "ds_restore"
    /\ IF config[p].envFile # Undefined
       THEN CopyCommand(p, "ds_restore", EnvFileArg(config[p]), LocalEnvPath, "ds_rm_temp")
       ELSE /\ Goto(p, "ds_rm_temp")
            /\ KeepFs
            /\ UNCHANGED <<repoDir, container, solutionType, config, structure,
                           mergedVars, portIdx, cmds>>

\* await runCommand(`cp ${repoPath}/${config.envFile} ${repoPath}/.env`), not guarded
DsRestore(p) ==
    /\ pc[p] = "ds_restore"
    /\ CopyCommand(p, "ds_restore", EnvFileArg(config[p]), LocalEnvPath, "ds_rm_temp")

\* await runCommand(`rm -f ${tempEnvPath}`)
DsRmTemp(p) ==
    /\ pc[p] = "ds_rm_temp"
    /\ RemoveTempCommand(p, "ds_rm_temp")

----------------------------------------------------------------------------
(* installDockerComposeService *)

\* await runCommand(`find ${repoPath} -name ".env.example" -exec ... \;`), before the merge
DcReset(p) ==
    /\ pc[p] = "dc_reset"
    /\ FindCommand(p, "dc_reset", "dc_merge")

\* await mergeEnvironmentFiles(rootEnvPath, localEnvPath, tempEnvPath)
DcMerge(p) ==
    /\ pc[p] = "dc_merge"
    /\ LET r == mergeEnvironmentFiles(fs, repoDir, RootEnvPath, LocalEnvPath, TempEnvPath)
       IN  /\ WriteFs(p, r.fs)
           /\ mergedVars' = [mergedVars EXCEPT ![p] = r.merged]
           /\ IF r.ok THEN Goto(p, "dc_detect") ELSE Throw(p, "ENOENT", "")
    /\ UNCHANGED <<repoDir, container, solutionType, config, structure, portIdx, cmds>>

\* the two branches tried in the other order
DcDetect_DockerfileFirst(p) ==
    /\ pc[p] = "dc_detect"
    /\ LET repoStructure == detectRepoStructure(fs, repoDir)
       IN  /\ structure' = [structure EXCEPT ![p] = repoStructure]
           /\ IF repoStructure.hasDockerfile
              THEN Goto(p, DockerServiceEntry(config[p]))
              ELSE IF repoStructure.hasDockerCompose
              THEN Goto(p, "dc_probe1")
              ELSE Throw(p, "No Docker configuration found in repository", "")
    /\ KeepFs
    /\ UNCHANGED <<repoDir, container, solutionType, config, mergedVars, portIdx, cmds>>

\* const repoStructure = await detectRepoStructure(repoPath), and the branch on it
DcDetect(p) ==
    /\ pc[p] = "dc_detect"
    /\ LET repoStructure == detectRepoStructure(fs, repoDir)
       IN  /\ structure' = [structure EXCEPT ![p] = repoStructure]
           /\ IF repoStructure.hasDockerCompose
              THEN Goto(p, "dc_probe1")
              ELSE IF repoStructure.hasDockerfile
              THEN Goto(p, DockerServiceEntry(config[p]))
              ELSE Throw(p, "No Docker configuration found in repository", "")
    /\ KeepFs
    /\ UNCHANGED <<repoDir, container, solutionType, config, mergedVars, portIdx, cmds>>

\* isDockerComposeAvailable: await runCommand('docker-compose --version')
DcProbe1(p) ==
    /\ pc[p] = "dc_probe1"
    /\ \E ok \in BOOLEAN :
        /\ runCommand(p, "dc_probe1", ok)
        /\ Goto(p, IF ok THEN "dc_use" ELSE "dc_probe2")
    /\ KeepFs
    /\ UNCHANGED <<repoDir, container, solutionType, config, structure, mergedVars, portIdx>>

\* isDockerComposeAvailable: await runCommand('docker compose version')
DcProbe2(p) ==
    /\ pc[p] = "dc_probe2"
    /\ \E ok \in BOOLEAN :
        /\ runCommand(p, "dc_probe2", ok)
        /\ Goto(p, IF ok THEN "dc_use" ELSE "dc_install")
    /\ KeepFs
    /\ UNCHANGED <<repoDir, container, solutionType, config, structure, mergedVars, portIdx>>

\* installDockerCompose: the wget, its failure logged and ignored
DcInstall(p) ==
    /\ pc[p] = "dc_install"
    /\ \E ok \in BOOLEAN :
        /\ runCommand(p, "dc_install", ok)
        /\ Goto(p, "dc_use")
    /\ KeepFs
    /\ UNCHANGED <<repoDir, container, solutionType, config, structure, mergedVars, portIdx>>

\* await runCommand(`cp ${tempEnvPath} ${localEnvPath}`)
DcUse(p) ==
    /\ pc[p] = "dc_use"
    /\ CopyCommand(p, "dc_use", TempEnvPath, LocalEnvPath, "dc_up")

\* await runCommand(`cd ${repoPath} && docker-compose up -d --build`)
DcUp(p) ==
    /\ pc[p] = "dc_up"
    /\ \E ok \in BOOLEAN :
        /\ ok => repoDir
        /\ runCommand(p, "dc_up", ok)
        /\ IF ok THEN Goto(p, "dc_restore") ELSE Throw(p, "Command failed", "dc_up")
    /\ KeepFs
    /\ UNCHANGED <<repoDir, container, solutionType, config, structure, mergedVars, portIdx>>

\* await runCommand(`find ${repoPath} -name ".env.example" -exec ... \;`), after the deployment
DcRestore(p) ==
    /\ pc[p] = "dc_restore"
    /\ FindCommand(p, "dc_restore", "dc_rm_temp")

\* await runCommand(`rm -f ${tempEnvPath}`)
DcRmTemp(p) ==
    /\ pc[p] = "dc_rm_temp"
    /\ RemoveTempCommand(p, "dc_rm_temp")

----------------------------------------------------------------------------
(* Specifications *)

Step(p) ==
    \/ RmRepo(p) \/ GitClone(p) \/ CleanupRm(p) \/ CleanupPort(p)
    \/ DsReset(p) \/ DsMerge(p) \/ DsUse(p) \/ DsBuild(p) \/ DsRun(p)
    \/ DsRestore(p) \/ DsRmTemp(p)
    \/ DcReset(p) \/ DcMerge(p) \/ DcDetect(p) \/ DcProbe1(p) \/ DcProbe2(p)
    \/ DcInstall(p) \/ DcUse(p) \/ DcUp(p) \/ DcRestore(p) \/ DcRmTemp(p)

\* Requests serialized by the caller: one installation at a time, each new
\* request arriving when the one before has returned or raised.
Next == \E t \in RequestTypes : Start("r1", t) \/ Step("r1")

Spec == Init /\ [][Next]_vars

\* Two requests for the same single-container solution type, not coordinated:
\* each runs once, and their steps interleave.
ConcurrentTypes == {t \in SolutionTypes : SOLUTION_CONFIGS[t].installType = "docker"}

StartConcurrent(p, t) ==
    /\ pc[p] = "idle"
    /\ pc[Other(p)] # "idle" => t = solutionType[Other(p)]
    /\ Start(p, t)

StepDocker(p) ==
    \/ RmRepo(p) \/ GitClone(p) \/ CleanupRm(p) \/ CleanupPort(p)
    \/ DsReset(p) \/ DsMerge(p) \/ DsUse(p) \/ DsBuild(p) \/ DsRun(p)
    \/ DsRestore(p) \/ DsRmTemp(p)

NextConc ==
    \E p \in Requests : (\E t \in ConcurrentTypes : StartConcurrent(p, t)) \/ StepDocker(p)

SpecConc == Init /\ [][NextConc]_vars

----------------------------------------------------------------------------
(* The merge and the detection on their own, over all bounded inputs *)

SeqsUpTo(S, n) == UNION {[1..k -> S] : k \in 0..n}

RootLineSet  == {Pair("A", "1"), Pair("B", "2"), Pair("B", ""), Comment}
LocalLineSet == {Pair("B", ""), Pair("B", "5"), Pair("C", "3"), Pair("A", "7"), Comment}

EnvFiles(S) == {NoFile} \cup {FileOf(l) : l \in SeqsUpTo(S, MaxLines)}

\* a request about to merge, in either driver, with any root and local env file
InitMerge ==
    /\ \E r \in EnvFiles(RootLineSet), l \in EnvFiles(LocalLineSet) :
         fs = [x \in Paths |-> IF x = RootEnvPath THEN r
                               ELSE IF x = LocalEnvPath THEN l ELSE NoFile]
    /\ repoDir = TRUE
    /\ container = FALSE
    /\ envWriter = NoRequest
    /\ \E t \in {"single", "multi"} :
         /\ pc = [p \in Requests |-> IF p # "r1" THEN "idle"
                                     ELSE IF t = "single" THEN "ds_merge" ELSE "dc_merge"]
         /\ solutionType = [p \in Requests |-> IF p = "r1" THEN t ELSE ""]
         /\ config = [p \in Requests |-> IF p = "r1" THEN SOLUTION_CONFIGS[t] ELSE NoConfig]
    /\ structure = [p \in Requests |-> NoStructure]
    /\ mergedVars = [p \in Requests |-> <<>>]
    /\ portIdx = [p \in Requests |-> 0]
    /\ cmds = [p \in Requests |-> <<>>]
    /\ error = [p \in Requests |-> NoError]
    /\ result = [p \in Requests |-> NoResult]

NextMerge == DsMerge("r1") \/ DcMerge("r1")

SpecMerge == InitMerge /\ [][NextMerge]_vars

\* a multi-container request about to detect, in a checkout holding any of
\* the descriptor files
InitDetect ==
    /\ \E d \in SUBSET (ComposeNames \cup {Dockerfile}), r \in RootFiles,
          e \in BOOLEAN, l \in BOOLEAN :
         fs = [x \in Paths |-> IF x = RootEnvPath THEN r ELSE Checkout(d, e, l, FALSE)[x]]
    /\ repoDir = TRUE
    /\ container = FALSE
    /\ envWriter = NoRequest
    /\ \E t \in {"multi", "multiNoEnv"} :
         /\ solutionType = [p \in Requests |-> IF p = "r1" THEN t ELSE ""]
         /\ config = [p \in Requests |-> IF p = "r1" THEN SOLUTION_CONFIGS[t] ELSE NoConfig]
    /\ pc = [p \in Requests |-> IF p = "r1" THEN "dc_detect" ELSE "idle"]
    /\ structure = [p \in Requests |-> NoStructure]
    /\ mergedVars = [p \in Requests |-> <<>>]
    /\ portIdx = [p \in Requests |-> 0]
    /\ cmds = [p \in Requests |-> <<>>]
    /\ error = [p \in Requests |-> NoError]
    /\ result = [p \in Requests |-> NoResult]

NextDetect == DcDetect("r1")

SpecDetect == InitDetect /\ [][NextDetect]_vars

----------------------------------------------------------------------------
(* Properties *)

CmdNames(p)   == {cmds[p][i].cmd : i \in DOMAIN cmds[p]}
Ran(p, c)     == \E i \in DOMAIN cmds[p] : cmds[p][i].cmd = c
RanOk(p, c)   == \E i \in DOMAIN cmds[p] : cmds[p][i].cmd = c /\ cmds[p][i].ok
Succeeded(p)  == pc[p] = "done" /\ result[p].success
ComposePresent == {n \in ComposeNames : fs[n].exists}
HasBoth       == repoDir /\ ComposePresent # {} /\ fs[Dockerfile].exists

\* the key/value set of an env file, read off its lines: a key's value is the
\* one of its last KEY=VALUE line
FileKeys(f)     == {f.lines[i].k : i \in {j \in DOMAIN f.lines : f.lines[j].kind = "pair"}}
FileValue(f, k) ==
    LET at == {j \in DOMAIN f.lines : f.lines[j].kind = "pair" /\ f.lines[j].k = k}
    IN  f.lines[CHOOSE j \in at : \A m \in at : m <= j].v

\* the file a driver restores .env from: the one config.envFile names on the
\* single-container path, .env.example on the multi-container path
ExampleEnvOf(p) ==
    IF config[p].installType = "docker" THEN EnvFileArg(config[p]) ELSE ExamplePath

\* .env carries a value of the root env file that the example file does not have
HoldsRootValues(ex) ==
    \E k \in FileKeys(fs[RootEnvPath]) \cap FileKeys(fs[LocalEnvPath]) :
        /\ FileValue(fs[LocalEnvPath], k) = FileValue(fs[RootEnvPath], k)
        /\ ~(k \in FileKeys(ex) /\ FileValue(ex, k) = FileValue(fs[RootEnvPath], k))

\* C1: after any run that returned success, on either path, <repoPath>/.env
\* holds exactly the content of the example-env file and never the merged
\* root+local values.
C1_EnvPristineAfterSuccess ==
    \A p \in Requests :
        Succeeded(p) =>
            LET ex == fs[ExampleEnvOf(p)]
            IN  /\ ex.exists => fs[LocalEnvPath] = ex
                /\ ~HoldsRootValues(ex)

C3_InvalidTypeRunsNothing ==
    \A p \in Requests :
        /\ (pc[p] # "idle" /\ solutionType[p] \notin SolutionTypes) =>
               /\ pc[p] = "raised"
               /\ error[p].msg = IF solutionType[p] = MissingType
                                 THEN "Solution type is required" ELSE "Unknown solution type"
        /\ error[p].msg \in {"Solution type is required", "Unknown solution type"} =>
               cmds[p] = <<>> /\ ~result[p].success

\* an unregistered type refused while the checkout of an earlier run stands
C3_Witness ==
    /\ pc["r1"] = "raised"
    /\ error["r1"].msg = "Unknown solution type"
    /\ repoDir /\ fs[LocalEnvPath].exists

\* C4 as stated: whenever the checkout holds a compose descriptor and a
\* Dockerfile, the installation drives the compose path and never docker
\* build / docker run.
C4_BothMeansCompose ==
    \A p \in Requests :
        HasBoth => ~Ran(p, "ds_build") /\ ~Ran(p, "ds_run")

\* C4 amended: for a solution of installType docker-compose whose checkout
\* holds a compose descriptor and a Dockerfile, the compose path is driven
\* and never docker build / docker run; and no installation drives both
\* strategies, a successful one exactly one.
C4_ComposeFirstWhenMulti ==
    \A p \in Requests :
        /\ (HasBoth /\ config[p].installType = "docker-compose") =>
               /\ ~Ran(p, "ds_build") /\ ~Ran(p, "ds_run")
               /\ Succeeded(p) => RanOk(p, "dc_up")
        /\ ~(Ran(p, "dc_up") /\ (Ran(p, "ds_build") \/ Ran(p, "ds_run")))
        /\ Succeeded(p) => (RanOk(p, "dc_up") \/ RanOk(p, "ds_run"))

C4_Witness ==
    /\ Succeeded("r1")
    /\ HasBoth
    /\ config["r1"].installType = "docker-compose"
    /\ RanOk("r1", "dc_up")

\* C5: cleanupExistingContainers never raises: no failure of the container
\* removal or of a port's stop command is the error of the run, and until
\* the next command the run is in the cleanup loop or at the deployment step
\* (which refuses an unsupported installType), the loop left on a failure.
CleanupCmds == {"docker_rm", "docker_stop"}

C5_CleanupNeverRaises ==
    \A p \in Requests :
        /\ error[p].cmd \notin CleanupCmds
        /\ (cmds[p] # <<>> /\ cmds[p][Len(cmds[p])].cmd \in CleanupCmds) =>
               \/ pc[p] \in {"docker_stop", "ds_reset", "ds_merge", "ds_use", "dc_reset"}
               \/ pc[p] = "raised" /\ error[p].msg = "Unsupported installation type"
        /\ (cmds[p] # <<>> /\ cmds[p][Len(cmds[p])].cmd \in CleanupCmds
                /\ ~cmds[p][Len(cmds[p])].ok) => pc[p] # "docker_stop"

\* the removal and a stop failed, and the deployment went on to build
C5_Witness ==
    /\ \E i \in DOMAIN cmds["r1"] : cmds["r1"][i].cmd = "docker_stop" /\ ~cmds["r1"][i].ok
    /\ RanOk("r1", "ds_build")

\* C6: a failed command outside the best-effort ones (cleanup, compose probe
\* and install) is the last command of its run, which ends re-raising that
\* failure and returns no result.
BestEffortCmds == CleanupCmds \cup {"dc_probe1", "dc_probe2", "dc_install"}

C6_FailFast ==
    \A p \in Requests :
        \A i \in DOMAIN cmds[p] :
            (~cmds[p][i].ok /\ cmds[p][i].cmd \notin BestEffortCmds) =>
                /\ i = Len(cmds[p])
                /\ pc[p] = "raised"
                /\ error[p] = [msg |-> "Command failed", cmd |-> cmds[p][i].cmd]
                /\ ~result[p].success

C6_Witness ==
    /\ pc["r1"] = "raised"
    /\ error["r1"] = [msg |-> "Command failed", cmd |-> "ds_build"]
    /\ Len(cmds["r1"]) > 3
    /\ ~container

\* C7: detectRepoStructure reports a compose descriptor exactly when one of
\* the four names exists, records the first existing name in the fixed
\* order (the only one when there is one, null when there is none), and
\* reports the Dockerfile exactly when it exists.
Priority(n) == CHOOSE i \in DOMAIN composeFiles : composeFiles[i] = n

C7_DetectFirstInOrder ==
    \A p \in Requests :
        pc[p] \notin {"idle", "dc_detect"} =>
            LET S == structure[p]
            IN  /\ S.hasDockerCompose = (ComposePresent # {})
                /\ ComposePresent = {} => S.composeFile = "null"
                /\ ComposePresent # {} =>
                       /\ S.composeFile \in ComposePresent
                       /\ \A n \in ComposePresent : Priority(S.composeFile) <= Priority(n)
                /\ S.hasDockerfile = fs[Dockerfile].exists

\* several names present: the first in the order is recorded
C7_Witness ==
    /\ pc["r1"] = "dc_probe1"
    /\ ComposePresent = {"compose.yaml", "docker-compose.yaml", "compose.yml"}
    /\ structure["r1"].composeFile = "docker-compose.yaml"
    /\ ~structure["r1"].hasDockerfile

\* C8: a merge step changes no file but <repoPath>/.env.temp: the root env
\* file and the local env file are as before, and the temp file holds the
\* merged lines.
C8_MergeWritesOnlyTemp ==
    [][\A p \in Requests :
          (pc[p] \in {"ds_merge", "dc_merge"} /\ pc'[p] # pc[p]) =>
              /\ \A x \in Paths \ {TempEnvPath} : fs'[x] = fs[x]
              /\ TempEnvPath \notin {RootEnvPath, LocalEnvPath}
              /\ pc'[p] # "raised" => fs'[TempEnvPath] = FileOf(EnvContent(mergedVars'[p]))
      ]_vars

\* a merge has run whose result differs from the local env file it read
C8_Witness ==
    /\ pc["r1"] = "ds_use"
    /\ fs[RootEnvPath].exists
    /\ fs[LocalEnvPath] = FileOf(ExampleLines)
    /\ fs[TempEnvPath].exists
    /\ fs[TempEnvPath] # fs[LocalEnvPath]

\* C9: with two uncoordinated requests for the same single-container type, a
\* request that returned success with an example-env file configured leaves
\* <repoPath>/.env equal to the example file unless the other request wrote
\* or removed .env since: nothing but the other request's interleaved
\* command breaks the guarantee.
C9_OnlyInterferenceBreaksRestore ==
    \A p \in Requests :
        (Succeeded(p) /\ config[p].envFile # Undefined) =>
            \/ fs[LocalEnvPath] = fs[ExamplePath]
            \/ envWriter = Other(p)

\* one request has returned success while .env holds the merged values the
\* other request, still running, copied there
C9_Witness ==
    \E p \in Requests :
        /\ Succeeded(p)
        /\ config[p].envFile # Undefined
        /\ pc[Other(p)] \in {"ds_build", "ds_run", "ds_restore"}
        /\ fs[ExamplePath].exists
        /\ fs[LocalEnvPath] # fs[ExamplePath]
        /\ fs[LocalEnvPath] = FileOf(EnvContent(mergedVars[Other(p)]))
        /\ "A" \in FileKeys(fs[LocalEnvPath])
        /\ envWriter = Other(p)

\* C10 as stated: whenever the single-container path completes successfully,
\* config.envFile was set and that file existed.
C10_SuccessNeedsEnvFile ==
    \A p \in Requests :
        (Succeeded(p) /\ Ran(p, "ds_run")) =>
            config[p].envFile # Undefined /\ fs[config[p].envFile].exists

\* C10 amended: the reset copy runs only with config.envFile set; the
\* single-container path completes successfully only when the file the
\* restore copy names exists, which with no envFile is a file of the checkout
\* called "undefined"; and a run that fails at the restore copy has started
\* the container and leaves .env with the merged values and .env.temp in place.
C10_RestoreUnguarded ==
    \A p \in Requests :
        /\ Ran(p, "ds_reset") => config[p].envFile # Undefined
        /\ (Succeeded(p) /\ Ran(p, "ds_run")) =>
               /\ fs[EnvFileArg(config[p])].exists
               /\ config[p].envFile = Undefined => fs[UndefinedPath].exists
        /\ (pc[p] = "raised" /\ error[p].cmd = "ds_restore") =>
               /\ container
               /\ fs[TempEnvPath] = FileOf(EnvContent(mergedVars[p]))
               /\ fs[LocalEnvPath] = fs[TempEnvPath]

\* no envFile and no file called "undefined": the run failed at the restore
\* copy, the container running and the merged root values left in .env
C10_Witness ==
    /\ pc["r1"] = "raised"
    /\ error["r1"].cmd = "ds_restore"
    /\ config["r1"].envFile = Undefined
    /\ ~fs[UndefinedPath].exists
    /\ container
    /\ "A" \in FileKeys(fs[LocalEnvPath])
    /\ fs[TempEnvPath].exists

====
